---- MODULE Spec2Model ----
(***************************************************************************)
(* Model of yolox/exp/yolox_base.py, class Exp: the experiment             *)
(* configuration object and its factory methods.                           *)
(*                                                                         *)
(* Four specifications share the variables and the actions:                *)
(*   SpecResize  random_resize run by every rank of a job, step by step,   *)
(*               with the barrier and the broadcast of torch.distributed   *)
(*   SpecRun     one process calling the factory methods of one Exp object *)
(*   SpecOpt     get_optimizer applied to an arbitrary model               *)
(*   SpecPre     preprocess applied to arbitrary targets and sizes         *)
(*                                                                         *)
(* Sizes are pairs <<height, width>>.  An object is known by its id        *)
(* <<kind, n>>, the n-th object of its kind.  An attribute that does not   *)
(* exist is <<>>.                                                          *)
(***************************************************************************)
EXTENDS Integers, Sequences, FiniteSets, TLC

VARIABLES
    hyper,        \* the hyperparameter attributes set by __init__
    preset,       \* whether random_size was assigned before the run (line 35 uncommented)
    random_size,  \* attribute random_size of the Exp object on rank 0, <<>> if absent
    isDist,       \* argument is_distributed of the run
    world,        \* the ranks of the job
    pc,           \* position of each rank inside random_resize
    tensor,       \* local tensor of each rank
    size,         \* local size of rank 0
    result,       \* value returned by random_resize on each rank
    callNo,       \* number of the call of random_resize each rank is in
    arrived,      \* number of barriers each rank has entered
    chan,         \* broadcast messages in flight to each rank
    nBarrier,     \* barrier calls of each rank in its current call
    nBcast,       \* broadcast calls of each rank in its current call
    wrote,        \* rank 0 has written tensor in its current call
    chosenLog,    \* the size rank 0 chose in each call some rank is still in
    model,        \* attribute model (an object id), <<>> if absent
    modules,      \* named_modules() of the model
    optimizer,    \* attribute optimizer, <<>> if absent, else <<record>>
    dataset,      \* attribute dataset, <<>> if absent, else <<record>>
    made,         \* number of objects of each kind built so far
    ret,          \* the last factory call, what it returned, its batch_size if get_optimizer
    firstModel,   \* id returned by the first get_model, <<>> before
    firstOpt,     \* id returned by the first get_optimizer, <<>> before
    pgs,          \* <<pg0, pg1, pg2>> at the end of the last loop of get_optimizer
    loaders,      \* the loaders get_data_loader has returned, in order
    datasets,     \* the datasets get_data_loader has stored, in order
    inputs,       \* shape of the inputs tensor of the caller of preprocess
    targets,      \* one row of the targets tensor of the caller of preprocess
    ppOld,        \* inputs and targets before the last preprocess
    ppSize,       \* tsize of the last preprocess, <<>> before
    ppCalls       \* number of calls of preprocess

rvars == <<isDist, world, pc, tensor, size, result, callNo, arrived, chan,
           nBarrier, nBcast, wrote, chosenLog>>
evars == <<model, modules, optimizer, dataset, made, ret, firstModel,
           firstOpt, pgs, loaders, datasets>>
pvars == <<inputs, targets, ppOld, ppSize, ppCalls>>
vars == <<hyper, preset, random_size, rvars, evars, pvars>>

----------------------------------------------------------------------------
(* Bounds *)

NRanks == 2
MaxCalls == 2

MaxModules == 2
MaxIds == 2
MaxLoads == 2
MaxCols == 5
MaxPre == 2

Ranks == 0 .. (NRanks - 1)

\* what an uninitialised torch.LongTensor(2) may hold
Garbage == {<<0, 0>>, <<-7, 13>>}

\* configurations: the width/height factor of each is such that the
\* floating-point product size * size_factor truncates to the exact quotient
InputSizes == {<<512, 640>>, <<500, 640>>, <<640, 640>>}
MultiscaleRanges == {0, 5}
RandomSizes == {<<>>, <<14, 15>>}
WarmupEpochs == {0, 15}

DefaultInputSize == <<512, 640>>
DefaultMultiscaleRange == 5

----------------------------------------------------------------------------
(* random_resize *)

\* int(n / d) of Python for integers n and d > 0: truncation toward zero
IntDiv(n, d) == IF n >= 0 THEN n \div d ELSE -((-n) \div d)

\* lines 186-188
RangeOf(input_size, multiscale_range) ==
    LET min_size == IntDiv(input_size[1], 32) - multiscale_range
        max_size == IntDiv(input_size[1], 32) + multiscale_range
    IN  <<min_size, max_size>>

\* line 190, with size_factor = input_size[1] * 1.0 / input_size[0] of line 184
\* (Python indexes from 0: input_size[0] is the height)
SizeOf(s, input_size) ==
    <<32 * s, 32 * IntDiv(s * input_size[2], input_size[1])>>

\* lines 185-188 without the hasattr test
RandomSizeForAlways(cur, input_size, multiscale_range) ==
    RangeOf(input_size, multiscale_range)
\* lines 185-188: the attribute random_size after them
RandomSizeFor(cur, input_size, multiscale_range) ==
    IF cur = <<>> THEN RangeOf(input_size, multiscale_range) ELSE cur

\* random.randint(a, b)
RandInt(rs) == rs[1] .. rs[2]

\* a broadcast from another rank than 0
BcastSrcWrong == NRanks - 1
\* line 196: the rank whose tensor dist.broadcast(tensor, 0) sends
BcastSrc == 0

\* line 183
AfterAlloc(r) == IF r = 0 THEN "choose" ELSE "sync"

\* line 194 with the synchronisation skipped
SyncTargetNone(dist) == "read"
\* line 194
SyncTarget(dist) == IF dist THEN "barrier" ELSE "read"

\* line 181
Alloc(r) ==
    /\ pc[r] = "idle"
    /\ callNo[r] < MaxCalls
    /\ callNo' = [callNo EXCEPT ![r] = @ + 1]
    /\ \E g \in Garbage : tensor' = [tensor EXCEPT ![r] = g]
    /\ pc' = [pc EXCEPT ![r] = AfterAlloc(r)]
    /\ UNCHANGED <<hyper, preset, random_size, isDist, world, size, result,
                   arrived, chan, nBarrier, nBcast, wrote, chosenLog, evars,
                   pvars>>

\* lines 184-190
Choose(r) ==
    /\ pc[r] = "choose"
    /\ LET rs == RandomSizeFor(random_size, hyper.input_size,
                               hyper.multiscale_range)
       IN  /\ random_size' = rs
           /\ \E s \in RandInt(rs) :
                /\ size' = SizeOf(s, hyper.input_size)
                /\ chosenLog' = [chosenLog EXCEPT ![callNo[r]] =
                                     SizeOf(s, hyper.input_size)]
    /\ pc' = [pc EXCEPT ![r] = "write"]
    /\ UNCHANGED <<hyper, preset, isDist, world, tensor, result, callNo,
                   arrived, chan, nBarrier, nBcast, wrote, evars, pvars>>

\* lines 191-192
Write(r) ==
    /\ pc[r] = "write"
    /\ tensor' = [tensor EXCEPT ![r] = size]
    /\ wrote' = TRUE
    /\ pc' = [pc EXCEPT ![r] = "sync"]
    /\ UNCHANGED <<hyper, preset, random_size, isDist, world, size, result,
                   callNo, arrived, chan, nBarrier, nBcast, chosenLog, evars,
                   pvars>>

\* line 194
Sync(r) ==
    /\ pc[r] = "sync"
    /\ pc' = [pc EXCEPT ![r] = SyncTarget(isDist)]
    /\ UNCHANGED <<hyper, preset, random_size, isDist, world, tensor, size,
                   result, callNo, arrived, chan, nBarrier, nBcast, wrote,
                   chosenLog, evars, pvars>>

\* line 195: the rank enters dist.barrier()
BarrierEnter(r) ==
    /\ pc[r] = "barrier"
    /\ arrived' = [arrived EXCEPT ![r] = @ + 1]
    /\ nBarrier' = [nBarrier EXCEPT ![r] = @ + 1]
    /\ pc' = [pc EXCEPT ![r] = "in_barrier"]
    /\ UNCHANGED <<hyper, preset, random_size, isDist, world, tensor, size,
                   result, callNo, chan, nBcast, wrote, chosenLog, evars,
                   pvars>>

\* line 195: dist.barrier() returns once every rank has entered it
BarrierExit(r) ==
    /\ pc[r] = "in_barrier"
    /\ \A q \in world : arrived[q] >= arrived[r]
    /\ pc' = [pc EXCEPT ![r] = "broadcast"]
    /\ UNCHANGED <<hyper, preset, random_size, isDist, world, tensor, size,
                   result, callNo, arrived, chan, nBarrier, nBcast, wrote,
                   chosenLog, evars, pvars>>

\* line 196: dist.broadcast(tensor, 0); the source sends its tensor to every
\* other rank, every other rank receives into its tensor
Broadcast(r) ==
    /\ pc[r] = "broadcast"
    /\ IF r = BcastSrc
       THEN /\ chan' = [q \in Ranks |->
                         IF q \in world \ {r}
                         THEN Append(chan[q], tensor[r]) ELSE chan[q]]
            /\ UNCHANGED tensor
       ELSE /\ chan[r] # <<>>
            /\ tensor' = [tensor EXCEPT ![r] = Head(chan[r])]
            /\ chan' = [chan EXCEPT ![r] = Tail(@)]
    /\ nBcast' = [nBcast EXCEPT ![r] = @ + 1]
    /\ pc' = [pc EXCEPT ![r] = "read"]
    /\ UNCHANGED <<hyper, preset, random_size, isDist, world, size, result,
                   callNo, arrived, nBarrier, wrote, chosenLog, evars, pvars>>

\* line 198
Read(r) ==
    /\ pc[r] = "read"
    /\ result' = [result EXCEPT ![r] = tensor[r]]
    /\ pc' = [pc EXCEPT ![r] = "done"]
    /\ UNCHANGED <<hyper, preset, random_size, isDist, world, tensor, size,
                   callNo, arrived, chan, nBarrier, nBcast, wrote, chosenLog,
                   evars, pvars>>

\* rank q has returned from its call number n
Returned(q, n) == callNo[q] > n \/ (callNo[q] = n /\ pc[q] = "idle")

\* line 199: the call returns result[r]; its locals go out of scope
Return(r) ==
    /\ pc[r] = "done"
    /\ pc' = [pc EXCEPT ![r] = "idle"]
    /\ tensor' = [tensor EXCEPT ![r] = <<>>]
    /\ size' = IF r = 0 THEN <<>> ELSE size
    /\ result' = [result EXCEPT ![r] = <<>>]
    /\ nBarrier' = [nBarrier EXCEPT ![r] = 0]
    /\ nBcast' = [nBcast EXCEPT ![r] = 0]
    /\ wrote' = IF r = 0 THEN FALSE ELSE wrote
    /\ chosenLog' = IF \A q \in world \ {r} : Returned(q, callNo[r])
                    THEN [chosenLog EXCEPT ![callNo[r]] = <<>>]
                    ELSE chosenLog
    /\ UNCHANGED <<hyper, preset, random_size, isDist, world, callNo, arrived,
                   chan, evars, pvars>>

----------------------------------------------------------------------------
(* get_optimizer *)

\* What named_modules() yields for one module v under the name k:
\*   bn_name  "bn" in k
\*   is_bn    isinstance(v, nn.BatchNorm2d)
\*   weight   "absent" (no attribute), "none" (the attribute is None) or
\*            "param" (an nn.Parameter); bias likewise
\* An nn.BatchNorm2d has both attributes, None when it is not affine.
AttrKinds == {"absent", "none", "param"}
ModuleKinds ==
    {m \in [bn_name : BOOLEAN, is_bn : BOOLEAN,
            weight : AttrKinds, bias : AttrKinds] :
        m.is_bn => (m.weight # "absent" /\ m.bias # "absent")}

\* named_modules() always yields the model itself, so a model has at least
\* one module
SeqsUpTo(S, n) == UNION {[1 .. k -> S] : k \in 1 .. n}
Archs == SeqsUpTo(ModuleKinds, MaxModules)

\* the parameter object held by attribute a of the i-th module; every module
\* registers parameters of its own
Param(i, a) == <<i, a>>
\* the value None inside a list of parameters
NoneVal == <<>>

NoGroups == [pg0 |-> <<>>, pg1 |-> <<>>, pg2 |-> <<>>, raised |-> FALSE]

\* lines 222-227 with the elif of line 226 turned into an if
GroupStepNoElif(g, i, v) ==
    LET g1 == IF v.bias = "param"
              THEN [g EXCEPT !.pg2 = Append(@, Param(i, "bias"))] ELSE g
        g2 == IF v.is_bn \/ v.bn_name
              THEN IF v.weight = "absent"
                   THEN [g1 EXCEPT !.raised = TRUE]
                   ELSE [g1 EXCEPT !.pg0 = Append(@,
                            IF v.weight = "none" THEN NoneVal
                            ELSE Param(i, "weight"))]
              ELSE g1
    IN  IF ~g2.raised /\ v.weight = "param"
        THEN [g2 EXCEPT !.pg1 = Append(@, Param(i, "weight"))]
        ELSE g2

\* lines 222-227: the body of the loop for the i-th module v; reading
\* v.weight of a module without that attribute raises AttributeError
GroupStep(g, i, v) ==
    LET g1 == IF v.bias = "param"
              THEN [g EXCEPT !.pg2 = Append(@, Param(i, "bias"))] ELSE g
    IN  IF v.is_bn \/ v.bn_name
        THEN IF v.weight = "absent"
             THEN [g1 EXCEPT !.raised = TRUE]
             ELSE [g1 EXCEPT !.pg0 = Append(@,
                      IF v.weight = "none" THEN NoneVal
                      ELSE Param(i, "weight"))]
        ELSE IF v.weight = "param"
             THEN [g1 EXCEPT !.pg1 = Append(@, Param(i, "weight"))]
             ELSE g1

\* lines 219-227: the loop over named_modules(), stopped by an exception
RECURSIVE GroupLoop(_, _, _)
GroupLoop(mods, i, g) ==
    IF i > Len(mods) \/ g.raised THEN g
    ELSE GroupLoop(mods, i + 1, GroupStep(g, i, mods[i]))

Elems(sq) == {sq[i] : i \in 1 .. Len(sq)}

\* line 229: torch.optim.SGD refuses an empty parameter list (ValueError)
\* and a parameter that is no tensor (TypeError)
SGDAccepts(pg) == pg # <<>> /\ NoneVal \notin Elems(pg)

\* lines 233-236: add_param_group refuses a parameter that is already in
\* another group of the optimizer (ValueError)
AddAccepts(old, pg) == Elems(old) \cap Elems(pg) = {}

\* lines 214-217; the two learning rates are kept symbolic
Lr(warmup_epochs, batch_size) ==
    IF warmup_epochs > 0 THEN <<"warmup_lr">>
    ELSE <<"basic_lr_per_img", batch_size>>

\* lines 229-236
NewOptimizer(id, lr, g) ==
    [id |-> id, lr |-> lr,
     param_groups |-> << [params |-> g.pg0, weight_decay |-> FALSE],
                         [params |-> g.pg1, weight_decay |-> TRUE],
                         [params |-> g.pg2, weight_decay |-> FALSE] >>]

\* the id of the next object of a kind
Fresh(kind) == <<kind, made[kind] + 1>>
\* what ret holds for a call that raised
Raised == <<"raised", 0>>
BatchSizes == {8, 64}

\* lines 212-239
GetOptimizer(batch_size) ==
    /\ pc[0] = "idle"
    /\ IF optimizer # <<>>
       THEN /\ ret' = [op |-> "get_optimizer", val |-> optimizer[1].id,
                        arg |-> batch_size]
            /\ UNCHANGED <<optimizer, made, firstOpt, pgs>>
       ELSE IF model = <<>>
       THEN \* line 221: self.model does not exist
            /\ ret' = [op |-> "get_optimizer", val |-> Raised, arg |-> batch_size]
            /\ UNCHANGED <<optimizer, made, firstOpt, pgs>>
       ELSE LET g == GroupLoop(modules, 1, NoGroups)
                built == /\ ~g.raised
                         /\ SGDAccepts(g.pg0)
                         /\ AddAccepts(g.pg0, g.pg1)
                         /\ AddAccepts(g.pg0 \o g.pg1, g.pg2)
                id == Fresh("optimizer")
            IN  /\ made["optimizer"] < MaxIds
                /\ pgs' = IF g.raised THEN <<>> ELSE <<g.pg0, g.pg1, g.pg2>>
                /\ IF built
                   THEN /\ optimizer' = <<NewOptimizer(id,
                                Lr(hyper.warmup_epochs, batch_size), g)>>
                        /\ made' = [made EXCEPT !["optimizer"] = @ + 1]
                        /\ ret' = [op |-> "get_optimizer", val |-> id, arg |-> batch_size]
                        /\ firstOpt' = IF firstOpt = <<>> THEN id ELSE firstOpt
                   ELSE /\ ret' = [op |-> "get_optimizer", val |-> Raised, arg |-> batch_size]
                        /\ UNCHANGED <<optimizer, made, firstOpt>>
    /\ UNCHANGED <<hyper, preset, random_size, rvars, model, modules, dataset,
                   firstModel, loaders, datasets, pvars>>

----------------------------------------------------------------------------
(* get_model, get_data_loader and the other factories *)

\* line 92 without the test for an existing model
ModelForFresh(cur, fresh) == fresh
\* lines 92-97: the model is built only when the attribute has none
ModelFor(cur, fresh) == IF cur = <<>> THEN fresh ELSE cur

\* the modules YOLOX(backbone, head) is made of: some shapes a model can have
Conv == [bn_name |-> FALSE, is_bn |-> FALSE, weight |-> "param", bias |-> "param"]
BatchNorm == [bn_name |-> TRUE, is_bn |-> TRUE, weight |-> "param", bias |-> "param"]
Container == [bn_name |-> FALSE, is_bn |-> FALSE, weight |-> "absent", bias |-> "absent"]
RunArchs == {<<Container, Conv, BatchNorm>>, <<Container, Conv>>}

\* lines 84-101; init_yolo and initialize_biases change the parameters of the
\* model, not the Exp object
GetModel ==
    /\ pc[0] = "idle"
    /\ LET m == ModelFor(model, Fresh("model"))
       IN  /\ model' = m
           /\ IF m = model
              THEN UNCHANGED <<modules, made>>
              ELSE /\ made["model"] < MaxIds
                   /\ made' = [made EXCEPT !["model"] = @ + 1]
                   /\ \E a \in RunArchs : modules' = a
           /\ ret' = [op |-> "get_model", val |-> m, arg |-> 0]
           /\ firstModel' = IF firstModel = <<>> THEN m ELSE firstModel
    /\ UNCHANGED <<hyper, preset, random_size, rvars, optimizer, dataset,
                   firstOpt, pgs, loaders, datasets, pvars>>

\* lines 123-156 with the dataset kept from an earlier call
DatasetForCached(cur, fresh) == IF cur # <<>> THEN cur ELSE <<fresh>>
\* lines 123-156: every call builds a dataset and stores it
DatasetFor(cur, fresh) == <<fresh>>

\* lines 158-159
LocalBatch(batch_size, is_distributed) ==
    IF is_distributed THEN batch_size \div Cardinality(world) ELSE batch_size

\* lines 104-178
GetDataLoader(batch_size, is_distributed, no_aug, cache_img) ==
    /\ pc[0] = "idle"
    /\ Len(loaders) < MaxLoads
    /\ LET fresh == [id |-> Fresh("dataset"), img_size |-> hyper.input_size,
                     mosaic |-> ~no_aug, cache |-> cache_img]
           ds == DatasetFor(dataset, fresh)
           loader == [id |-> Fresh("loader"), dataset |-> ds[1].id,
                      batch_size |-> LocalBatch(batch_size, is_distributed)]
       IN  /\ dataset' = ds
           /\ made' = [made EXCEPT !["dataset"] = @ + 1, !["loader"] = @ + 1]
           /\ loaders' = Append(loaders, loader)
           /\ datasets' = Append(datasets, ds[1].id)
           /\ ret' = [op |-> "get_data_loader", val |-> loader.id, arg |-> 0]
    /\ UNCHANGED <<hyper, preset, random_size, rvars, model, modules,
                   optimizer, firstModel, firstOpt, pgs, pvars>>

\* a factory that builds an object, returns it and keeps nothing:
\* get_lr_scheduler (lines 241-254), get_eval_loader (lines 256-284),
\* get_evaluator (lines 287-303)
Build(op) ==
    /\ pc[0] = "idle"
    /\ ret' = [op |-> op, val |-> <<op, 0>>, arg |-> 0]
    /\ UNCHANGED <<hyper, preset, random_size, rvars, model, modules,
                   optimizer, dataset, made, firstModel, firstOpt, pgs,
                   loaders, datasets, pvars>>

GetLrScheduler == Build("get_lr_scheduler")
GetEvalLoader == Build("get_eval_loader")
GetEvaluator == Build("get_evaluator")

\* lines 305-306: the result is the evaluator's
Eval ==
    /\ pc[0] = "idle"
    /\ ret' = [op |-> "eval", val |-> <<"eval", 0>>, arg |-> 0]
    /\ UNCHANGED <<hyper, preset, random_size, rvars, model, modules,
                   optimizer, dataset, made, firstModel, firstOpt, pgs,
                   loaders, datasets>>
    /\ UNCHANGED pvars

----------------------------------------------------------------------------
(* preprocess *)

\* Rational numbers are pairs <<numerator, denominator>> in lowest terms.
RECURSIVE Gcd(_, _)
Gcd(a, b) == IF b = 0 THEN a ELSE Gcd(b, a % b)
Ratio(n, d) == LET g == Gcd(n, d) IN <<n \div g, d \div g>>
Times(x, y) == Ratio(x[1] * y[1], x[2] * y[2])
One == <<1, 1>>

\* line 202 reading the width instead of the height
ScaleYOfWidth(tsize, input_size) == Ratio(tsize[2], input_size[2])
\* line 202 (Python indexes from 0)
ScaleY(tsize, input_size) == Ratio(tsize[1], input_size[1])
\* line 203
ScaleX(tsize, input_size) == Ratio(tsize[2], input_size[2])

\* lines 208-209: Python columns 2::2 are the TLA+ positions 3, 5, ... and
\* Python columns 3::2 the positions 4, 6, ...
ScaleRow(row, scale_x, scale_y) ==
    [c \in 1 .. Len(row) |->
        IF c >= 3 /\ c % 2 = 1 THEN Times(row[c], scale_x)
        ELSE IF c >= 4 /\ c % 2 = 0 THEN Times(row[c], scale_y)
        ELSE row[c]]

\* lines 201-210; targets is changed in place
Preprocess(tsize) ==
    /\ pc[0] = "idle"
    /\ ppCalls < MaxPre
    /\ ppCalls' = ppCalls + 1
    /\ ppOld' = <<inputs, targets>>
    /\ ppSize' = tsize
    /\ LET scale_y == ScaleY(tsize, hyper.input_size)
           scale_x == ScaleX(tsize, hyper.input_size)
       IN  IF scale_x # One \/ scale_y # One
           THEN /\ inputs' = tsize
                /\ targets' = ScaleRow(targets, scale_x, scale_y)
           ELSE UNCHANGED <<inputs, targets>>
    /\ ret' = [op |-> "preprocess", val |-> <<"preprocess", 0>>, arg |-> 0]
    /\ UNCHANGED <<hyper, preset, random_size, rvars, model, modules,
                   optimizer, dataset, made, firstModel, firstOpt, pgs,
                   loaders, datasets>>

\* sizes random_resize hands to preprocess
TSizes == {<<512, 640>>, <<480, 608>>, <<352, 416>>, <<640, 640>>, <<512, 800>>}
\* values of a targets row
TargetValues == {<<1, 1>>, <<3, 1>>}
TargetRows == UNION {[1 .. k -> TargetValues] : k \in 0 .. MaxCols}

----------------------------------------------------------------------------
(* Initial states *)

\* lines 16-82: the attributes __init__ sets, as far as the methods modelled
\* here read them, possibly changed before the run starts
InitHyper ==
    /\ hyper \in [input_size : InputSizes,
                  multiscale_range : MultiscaleRanges,
                  warmup_epochs : WarmupEpochs]
    /\ random_size \in RandomSizes
    /\ preset = (random_size # <<>>)

InitRanks ==
    /\ pc = [r \in Ranks |-> "idle"]
    /\ tensor = [r \in Ranks |-> <<>>]
    /\ size = <<>>
    /\ result = [r \in Ranks |-> <<>>]
    /\ callNo = [r \in Ranks |-> 0]
    /\ arrived = [r \in Ranks |-> 0]
    /\ chan = [r \in Ranks |-> <<>>]
    /\ nBarrier = [r \in Ranks |-> 0]
    /\ nBcast = [r \in Ranks |-> 0]
    /\ wrote = FALSE
    /\ chosenLog = [n \in 1 .. MaxCalls |-> <<>>]

Kinds == {"model", "optimizer", "dataset", "loader"}

InitObjects ==
    /\ model = <<>>
    /\ modules = <<>>
    /\ optimizer = <<>>
    /\ dataset = <<>>
    /\ made = [k \in Kinds |-> 0]
    /\ ret = [op |-> "none", val |-> <<>>, arg |-> 0]
    /\ firstModel = <<>>
    /\ firstOpt = <<>>
    /\ pgs = <<>>
    /\ loaders = <<>>
    /\ datasets = <<>>

InitPreprocess ==
    /\ inputs = <<>>
    /\ targets = <<>>
    /\ ppOld = <<>>
    /\ ppSize = <<>>
    /\ ppCalls = 0

----------------------------------------------------------------------------
(* random_resize on every rank of a job *)

InitResize ==
    /\ InitHyper
    /\ hyper.warmup_epochs = 15
    /\ isDist \in BOOLEAN
    /\ world = IF isDist THEN Ranks ELSE {0}
    /\ InitRanks
    /\ InitObjects
    /\ InitPreprocess

NextResize ==
    \/ \E r \in world : Alloc(r)
    \/ \E r \in world : Choose(r)
    \/ \E r \in world : Write(r)
    \/ \E r \in world : Sync(r)
    \/ \E r \in world : BarrierEnter(r)
    \/ \E r \in world : BarrierExit(r)
    \/ \E r \in world : Broadcast(r)
    \/ \E r \in world : Read(r)
    \/ \E r \in world : Return(r)

SpecResize == InitResize /\ [][NextResize]_vars

----------------------------------------------------------------------------
(* get_optimizer on an arbitrary model *)

InitOpt ==
    /\ hyper \in [input_size : {DefaultInputSize},
                  multiscale_range : {DefaultMultiscaleRange},
                  warmup_epochs : WarmupEpochs]
    /\ random_size = <<>>
    /\ preset = FALSE
    /\ isDist = FALSE
    /\ world = {0}
    /\ InitRanks
    /\ model = <<"model", 1>>
    /\ modules \in Archs
    /\ optimizer = <<>>
    /\ dataset = <<>>
    /\ made = [k \in Kinds |-> IF k = "model" THEN 1 ELSE 0]
    /\ ret = [op |-> "get_model", val |-> model, arg |-> 0]
    /\ firstModel = model
    /\ firstOpt = <<>>
    /\ pgs = <<>>
    /\ loaders = <<>>
    /\ datasets = <<>>
    /\ InitPreprocess

NextOpt == \E batch_size \in BatchSizes : GetOptimizer(batch_size)

SpecOpt == InitOpt /\ [][NextOpt]_vars

----------------------------------------------------------------------------
(* The factory methods of one Exp object, called by one process *)

InitRun ==
    /\ hyper \in [input_size : {DefaultInputSize},
                  multiscale_range : {0},
                  warmup_epochs : WarmupEpochs]
    /\ random_size \in RandomSizes
    /\ preset = (random_size # <<>>)
    /\ isDist = FALSE
    /\ world = {0}
    /\ InitRanks
    /\ InitObjects
    /\ inputs = DefaultInputSize
    /\ targets = <<One, One, One, One>>
    /\ ppOld = <<>>
    /\ ppSize = <<>>
    /\ ppCalls = 0

\* batch_size, no_aug and cache_img of the calls of get_data_loader
LoaderArgs == {<<8, FALSE, FALSE>>, <<64, TRUE, TRUE>>}

NextRun ==
    \/ GetModel
    \/ \E a \in LoaderArgs : GetDataLoader(a[1], isDist, a[2], a[3])
    \/ \E b \in BatchSizes : GetOptimizer(b)
    \/ GetLrScheduler
    \/ GetEvalLoader
    \/ GetEvaluator
    \/ Eval
    \/ Preprocess(<<480, 608>>)
    \/ Alloc(0)
    \/ Choose(0)
    \/ Write(0)
    \/ Sync(0)
    \/ Read(0)
    \/ Return(0)

SpecRun == InitRun /\ [][NextRun]_vars

----------------------------------------------------------------------------
(* preprocess on arbitrary sizes and targets *)

InitPre ==
    /\ hyper \in [input_size : InputSizes,
                  multiscale_range : {DefaultMultiscaleRange},
                  warmup_epochs : {15}]
    /\ random_size = <<>>
    /\ preset = FALSE
    /\ isDist = FALSE
    /\ world = {0}
    /\ InitRanks
    /\ InitObjects
    /\ inputs = hyper.input_size
    /\ targets \in TargetRows
    /\ ppOld = <<>>
    /\ ppSize = <<>>
    /\ ppCalls = 0

NextPre == \E tsize \in TSizes : Preprocess(tsize)

SpecPre == InitPre /\ [][NextPre]_vars

----------------------------------------------------------------------------
(* Properties of random_resize, under SpecResize *)

\* C1: in a distributed job every rank returns from random_resize the
\* (height, width) pair that rank 0 chose in the same call, whatever the
\* interleaving of the ranks.
C1_SameSizeOnEveryRank ==
    isDist => \A r \in world :
        pc[r] = "done" =>
            /\ chosenLog[callNo[r]] # <<>>
            /\ result[r] = chosenLog[callNo[r]]

\* every rank is about to return from the last call with the size rank 0 chose
C1_Witness ==
    /\ isDist
    /\ \A r \in world :
          /\ pc[r] = "done"
          /\ callNo[r] = MaxCalls
          /\ result[r] = chosenLog[MaxCalls]

\* C8: in a distributed job rank 0 has written its size into the tensor
\* before it enters the barrier, every rank calls the barrier once and, after
\* it has left the barrier, the broadcast once, and a rank reads its result
\* only after its broadcast call.
C8_PrimitivesInOrder ==
    isDist => \A r \in world :
        /\ nBarrier[r] <= 1
        /\ nBcast[r] <= nBarrier[r]
        /\ (r = 0 /\ nBarrier[r] = 1) => (wrote /\ tensor[r] = size)
        /\ nBcast[r] = 1 => pc[r] \in {"read", "done"}
        /\ pc[r] \in {"read", "done"} => (nBarrier[r] = 1 /\ nBcast[r] = 1)
        /\ result[r] # <<>> => nBcast[r] = 1

\* a rank other than 0 has read its result after one barrier and one broadcast
C8_Witness ==
    /\ isDist
    /\ \E r \in world \ {0} :
          /\ pc[r] = "done"
          /\ result[r] # <<>>
          /\ nBarrier[r] = 1
          /\ nBcast[r] = 1
    /\ wrote

\* C9: with multiscale_range = 0 and no random_size preset, every call of
\* random_resize on rank 0 returns the configured input_size.
C9_ZeroRangeReturnsInputSize ==
    (hyper.multiscale_range = 0 /\ ~preset /\ pc[0] = "done")
        => result[0] = hyper.input_size

\* C10: with the default configuration every size random_resize returns on
\* rank 0 has both dimensions multiples of 32 within [480, 800].
C10_DefaultRange ==
    (/\ hyper.input_size = DefaultInputSize
     /\ hyper.multiscale_range = DefaultMultiscaleRange
     /\ ~preset
     /\ pc[0] = "done")
        => \A i \in {1, 2} :
             /\ result[0][i] % 32 = 0
             /\ 480 <= result[0][i]
             /\ result[0][i] <= 800

----------------------------------------------------------------------------
(* Properties of get_optimizer, under SpecOpt *)

Params(sq) == Elems(sq) \ {NoneVal}
ModuleIds == 1 .. Len(modules)

\* C2: when the loop of get_optimizer has run over the modules of the model,
\* no parameter is in more than one of pg0, pg1 and pg2, and so it is for the
\* groups of the optimizer built from them.
C2_GroupsDisjoint ==
    /\ pgs # <<>> =>
          \A i, j \in 1 .. 3 : i # j => Params(pgs[i]) \cap Params(pgs[j]) = {}
    /\ optimizer # <<>> =>
          \A i, j \in 1 .. 3 : i # j =>
              Params(optimizer[1].param_groups[i].params)
                  \cap Params(optimizer[1].param_groups[j].params) = {}

\* an optimizer was built with a parameter in each of its three groups
C2_Witness ==
    /\ optimizer # <<>>
    /\ pgs # <<>>
    /\ \A i \in 1 .. 3 : Params(optimizer[1].param_groups[i].params) # {}

\* C3: get_optimizer completes for every model and puts the weights of the
\* batch-norm modules in the group without weight decay, all other weights in
\* the group with weight decay and all biases in the third group, each
\* parameter once.
C3_GroupsByRole ==
    ret.op = "get_optimizer" =>
        /\ ret.val # Raised
        /\ optimizer # <<>>
        /\ LET grp == optimizer[1].param_groups
               bnw == {Param(i, "weight") : i \in
                        {k \in ModuleIds : modules[k].is_bn
                                           /\ modules[k].weight = "param"}}
               otw == {Param(i, "weight") : i \in
                        {k \in ModuleIds : ~modules[k].is_bn
                                           /\ modules[k].weight = "param"}}
               bia == {Param(i, "bias") : i \in
                        {k \in ModuleIds : modules[k].bias = "param"}}
           IN  /\ Elems(grp[1].params) = bnw /\ Len(grp[1].params) = Cardinality(bnw)
               /\ Elems(grp[2].params) = otw /\ Len(grp[2].params) = Cardinality(otw)
               /\ Elems(grp[3].params) = bia /\ Len(grp[3].params) = Cardinality(bia)
               /\ ~grp[1].weight_decay /\ grp[2].weight_decay

----------------------------------------------------------------------------
(* Properties of the cached handles, under SpecRun *)

\* C4: every get_model returns the model the first get_model returned, and
\* every get_optimizer that returns, returns the optimizer the first one
\* returned, whatever batch_size it is given; neither is null.
C4_ModelAndOptimizerCached ==
    /\ ret.op = "get_model" =>
          (ret.val # <<>> /\ ret.val = firstModel /\ model = firstModel)
    /\ (ret.op = "get_optimizer" /\ ret.val # Raised) =>
          (/\ ret.val # <<>>
           /\ ret.val = firstOpt
           /\ optimizer # <<>>
           /\ optimizer[1].id = firstOpt)
    /\ firstModel # <<>> => model = firstModel
    /\ firstOpt # <<>> => (optimizer # <<>> /\ optimizer[1].id = firstOpt)

\* a later get_optimizer, given another batch_size than the one the optimizer
\* was built with, returned the first optimizer, after get_model
C4_Witness ==
    /\ ret.op = "get_optimizer"
    /\ ret.val = firstOpt
    /\ firstOpt # <<>>
    /\ firstModel # <<>>
    /\ hyper.warmup_epochs = 0
    /\ optimizer[1].lr # Lr(hyper.warmup_epochs, ret.arg)

\* C5 as claimed: every call of get_data_loader returns the same loader, and
\* the dataset attribute holds the same dataset after every call.
C5_LoaderCached ==
    \A i, j \in 1 .. Len(loaders) :
        loaders[i].id = loaders[j].id /\ datasets[i] = datasets[j]

\* C5 as amended: every call of get_data_loader builds a new dataset and a
\* new loader over it, and the dataset attribute holds the dataset of the
\* last call.
C5_LoaderFresh ==
    /\ Len(datasets) = Len(loaders)
    /\ \A i, j \in 1 .. Len(loaders) :
          i # j => (loaders[i].id # loaders[j].id /\ datasets[i] # datasets[j])
    /\ \A i \in 1 .. Len(loaders) : loaders[i].dataset = datasets[i]
    /\ (dataset = <<>>) <=> (datasets = <<>>)
    /\ dataset # <<>> => dataset[1].id = datasets[Len(datasets)]

\* get_data_loader has been called twice
C5_Witness ==
    /\ Len(loaders) >= 2
    /\ ret.op = "get_data_loader"
    /\ ret.val = loaders[Len(loaders)].id
    /\ dataset[1].id = loaders[Len(loaders)].dataset

\* the attributes of the Exp object that exist, beside the hyperparameters
Attrs ==
    {a \in {"model", "optimizer", "dataset", "random_size"} :
        \/ a = "model" /\ model # <<>>
        \/ a = "optimizer" /\ optimizer # <<>>
        \/ a = "dataset" /\ dataset # <<>>
        \/ a = "random_size" /\ random_size # <<>>}

\* C7 as claimed: no call changes a hyperparameter or adds an attribute other
\* than model, optimizer and dataset.
C7_ReadOnly ==
    [][/\ hyper' = hyper
       /\ Attrs' \subseteq Attrs \cup {"model", "optimizer", "dataset"}
       /\ random_size # <<>> => random_size' = random_size]_vars

\* C7 as amended: no call changes a hyperparameter, a random_size that exists
\* is never changed, and the only attributes a call adds are model, optimizer,
\* dataset and random_size.
C7_ReadOnlyButRandomSize ==
    [][/\ hyper' = hyper
       /\ Attrs' \subseteq Attrs \cup {"model", "optimizer", "dataset", "random_size"}
       /\ Attrs \subseteq Attrs'
       /\ random_size # <<>> => random_size' = random_size]_vars

\* every factory has stored its handle and random_resize its range, on a
\* configuration without a preset random_size
C7_Witness ==
    /\ ~preset
    /\ Attrs = {"model", "optimizer", "dataset", "random_size"}
    /\ callNo[0] = MaxCalls
    /\ ppCalls > 0

----------------------------------------------------------------------------
(* Properties of preprocess, under SpecPre *)

\* C6: preprocess multiplies the Python columns 2::2 of the targets by
\* tsize[1] / input_size[1] and the columns 3::2 by tsize[0] / input_size[0],
\* leaves the other columns alone, resizes the inputs to tsize, and changes
\* nothing when tsize is input_size.
C6_ScaleIsRatio ==
    ppSize # <<>> =>
        LET old == ppOld[2]
            axis(c) == IF c >= 3 /\ c % 2 = 1 THEN 2
                       ELSE IF c >= 4 /\ c % 2 = 0 THEN 1 ELSE 0
        IN  /\ Len(targets) = Len(old)
            /\ \A c \in 1 .. Len(targets) :
                  IF axis(c) = 0 THEN targets[c] = old[c]
                  ELSE targets[c] =
                         Ratio(old[c][1] * ppSize[axis(c)],
                               old[c][2] * hyper.input_size[axis(c)])
            /\ ppSize = hyper.input_size =>
                  (inputs = ppOld[1] /\ targets = old)
            /\ ppSize # hyper.input_size => inputs = ppSize

\* targets with x and y columns were scaled by two different ratios
C6_Witness ==
    /\ ppSize # <<>>
    /\ Len(targets) >= 4
    /\ ppSize[1] # hyper.input_size[1]
    /\ ppSize[2] # hyper.input_size[2]
    /\ ppSize[1] * hyper.input_size[2] # ppSize[2] * hyper.input_size[1]
    /\ targets # ppOld[2]

====
